---- MODULE Spec2Model ----
(***************************************************************************)
(* A model of the CCDE quiz web app (src/src/App.jsx): the question-bank   *)
(* parser (parseQuestionsFromHtml), the run preparation (shuffleArray,     *)
(* prepareQuestion, startQuiz), the settings dialog and the per-run        *)
(* answer state machine of the App component.                              *)
(*                                                                         *)
(* Text is a sequence of one-character strings; the two characters that    *)
(* TLA+ strings cannot hold are the tokens "NBSP" (U+00A0) and "IDEOCOMMA" *)
(* (U+3001).  Block texts hold no line terminators.  Letter strings        *)
(* (answers, selections) are sequences of the letters "A".."F".            *)
(* Indices into quizQuestions are 0-based as in the source, so the         *)
(* question at index i is quizQuestions[i + 1].                            *)
(***************************************************************************)
EXTENDS Integers, Sequences, FiniteSets, TLC

VARIABLES
    \* parseQuestionsFromHtml: its input, its loop position and its locals
    blocks, blockIdx, parser,
    \* App component state (useState / useRef)
    questions, quizQuestions, settings, currentIndex, score, answersState,
    draftSelections, warning, wrongAnswers, autoNextTimer, showSettings,
    showFinalModal, loading, loadError, pendingLoads, showWrongModal,
    \* the localStorage item under WRONG_STORAGE_KEY
    wrongStorage,
    \* useState of the font size
    fontSize,
    \* history: the file dropped most recently on the upload zone ("" for
    \* none); no action reads it
    lastDropped

parseVars == <<blocks, blockIdx, parser>>

appVars == <<questions, quizQuestions, settings, currentIndex, score,
             answersState, draftSelections, warning, wrongAnswers,
             autoNextTimer, showSettings, showFinalModal, loading,
             loadError, pendingLoads, showWrongModal, wrongStorage, fontSize,
             lastDropped>>

vars == <<blocks, blockIdx, parser, questions, quizQuestions, settings,
          currentIndex, score, answersState, draftSelections, warning,
          wrongAnswers, autoNextTimer, showSettings, showFinalModal,
          loading, loadError, pendingLoads, showWrongModal, wrongStorage,
          fontSize, lastDropped>>

(***************************************************************************)
(* Characters and letters                                                  *)
(***************************************************************************)
DEFAULT_FONT_SIZE == 20

MIN_FONT_SIZE == 12

MAX_FONT_SIZE == 32

LETTERS == <<"A", "B", "C", "D", "E", "F">>

LetterSet == {LETTERS[i] : i \in 1..Len(LETTERS)}

\* position of a letter in A..F: the order Array.prototype.sort() gives
LetterRank(l) == CHOOSE i \in 1..Len(LETTERS) : LETTERS[i] = l

DigitChars == <<"0", "1", "2", "3", "4", "5", "6", "7", "8", "9">>

IsDigit(c) == \E i \in 1..Len(DigitChars) : DigitChars[i] = c

DigitValue(c) == (CHOOSE i \in 1..Len(DigitChars) : DigitChars[i] = c) - 1

\* [.,、] of QUESTION_RE and OPTION_RE
IsSeparator(c) == c \in {".", ",", "IDEOCOMMA"}

\* \s of the regular expressions and of String.prototype.trim
IsSpace(c) == c \in {" ", "NBSP"}

\* String.prototype.toUpperCase, and the /i flag, on the letters the
\* patterns name
ToUpper(c) ==
    CASE c = "a" -> "A" [] c = "b" -> "B" [] c = "c" -> "C"
      [] c = "d" -> "D" [] c = "e" -> "E" [] c = "f" -> "F"
      [] c = "n" -> "N" [] c = "s" -> "S" [] c = "w" -> "W"
      [] c = "r" -> "R"
      [] OTHER -> c

ToUpperCase(s) == [i \in 1..Len(s) |-> ToUpper(s[i])]

\* Number("007") = 7
RECURSIVE NumberOf(_)
NumberOf(ds) ==
    IF ds = <<>> THEN 0
    ELSE 10 * NumberOf(SubSeq(ds, 1, Len(ds) - 1)) + DigitValue(ds[Len(ds)])

\* [...list].sort() on letters: insertion sort by rank
RECURSIVE InsertLetter(_, _)
InsertLetter(sorted, l) ==
    IF sorted = <<>> THEN <<l>>
    ELSE IF LetterRank(l) < LetterRank(Head(sorted)) THEN <<l>> \o sorted
    ELSE <<Head(sorted)>> \o InsertLetter(Tail(sorted), l)

RECURSIVE sortLetters(_)
sortLetters(list) ==
    IF list = <<>> THEN <<>>
    ELSE InsertLetter(sortLetters(SubSeq(list, 1, Len(list) - 1)), list[Len(list)])

Range(s) == {s[i] : i \in 1..Len(s)}

(***************************************************************************)
(* normalizeText and the three line patterns                               *)
(***************************************************************************)
RECURSIVE TrimStart(_)
TrimStart(s) ==
    IF s # <<>> /\ IsSpace(Head(s)) THEN TrimStart(Tail(s)) ELSE s

RECURSIVE TrimEnd(_)
TrimEnd(s) ==
    IF s # <<>> /\ IsSpace(s[Len(s)]) THEN TrimEnd(SubSeq(s, 1, Len(s) - 1)) ELSE s

Trim(s) == TrimEnd(TrimStart(s))

normalizeText(text) ==
    Trim([i \in 1..Len(text) |-> IF text[i] = "NBSP" THEN " " ELSE text[i]])

\* length of the longest prefix of s whose characters satisfy the class
RECURSIVE DigitRun(_)
DigitRun(s) ==
    IF s # <<>> /\ IsDigit(Head(s)) THEN 1 + DigitRun(Tail(s)) ELSE 0

RECURSIVE AnswerSepRun(_)
AnswerSepRun(s) ==
    IF s # <<>> /\ (Head(s) = ":" \/ IsSpace(Head(s)))
    THEN 1 + AnswerSepRun(Tail(s)) ELSE 0

Drop(s, n) == SubSeq(s, n + 1, Len(s))

\* QUESTION_RE = /^(\d+)[.,、]\s*(.*)$/
QuestionMatch(text) ==
    LET k == DigitRun(text) IN
    IF k >= 1 /\ Len(text) > k /\ IsSeparator(text[k + 1])
    THEN [ok |-> TRUE, number |-> SubSeq(text, 1, k),
          rest |-> TrimStart(Drop(text, k + 1))]
    ELSE [ok |-> FALSE, number |-> <<>>, rest |-> <<>>]

\* OPTION_RE = /^([A-F])[.,、]\s*(.*)$/i
OptionMatch(text) ==
    IF Len(text) >= 2 /\ ToUpper(text[1]) \in LetterSet /\ IsSeparator(text[2])
    THEN [ok |-> TRUE, letter |-> <<text[1]>>, rest |-> TrimStart(Drop(text, 2))]
    ELSE [ok |-> FALSE, letter |-> <<>>, rest |-> <<>>]

\* ANSWER_RE = /^Answer[:\s]+([A-F]+)$/i
AnswerMatch(text) ==
    LET word == <<"A", "N", "S", "W", "E", "R">>
        tail == Drop(text, Len(word))
        k == AnswerSepRun(tail)
        letters == Drop(tail, k)
    IN  IF /\ Len(text) > Len(word)
           /\ ToUpperCase(SubSeq(text, 1, Len(word))) = word
           /\ k >= 1
           /\ letters # <<>>
           /\ \A i \in 1..Len(letters) : ToUpper(letters[i]) \in LetterSet
        THEN [ok |-> TRUE, letters |-> letters]
        ELSE [ok |-> FALSE, letters |-> <<>>]

(***************************************************************************)
(* parseQuestionsFromHtml, over the blocks extractBlocksFromHtml returns   *)
(***************************************************************************)
\* let currentNumber = null
Null == -1

RECURSIVE appendUniqueImages(_, _)
appendUniqueImages(target, images) ==
    IF images = <<>> THEN target
    ELSE LET src == Head(images)
             next == IF src # "" /\ src \notin Range(target)
                     THEN Append(target, src) ELSE target
         IN  appendUniqueImages(next, Tail(images))

\* the locals of parseQuestionsFromHtml before the loop
ParserStart ==
    [questions |-> <<>>, currentText |-> <<>>, currentOptions |-> <<>>,
     currentImages |-> <<>>, currentNumber |-> Null, currentAnswer |-> <<>>]

\* Object.keys(options): the keys in insertion order
OptionKeys(options) == [i \in 1..Len(options) |-> options[i].letter]

OptionKeySet(options) == Range(OptionKeys(options))

\* currentOptions[letter] = text: a new key goes last, an old key keeps its place
SetOption(options, letter, text) ==
    IF letter \in OptionKeySet(options)
    THEN [i \in 1..Len(options) |->
            IF options[i].letter = letter
            THEN [letter |-> letter, text |-> text] ELSE options[i]]
    ELSE Append(options, [letter |-> letter, text |-> text])

\* flushCurrentQuestion with a fault: a question without options is emitted
flushCurrentQuestion_NoOptionCheck(p) ==
    IF p.currentNumber # Null /\ p.currentAnswer # <<>>
    THEN [p EXCEPT !.questions = Append(@,
            [number |-> p.currentNumber,
             text |-> Trim(p.currentText),
             options |-> p.currentOptions,
             answer |-> sortLetters(ToUpperCase(p.currentAnswer)),
             images |-> p.currentImages])]
    ELSE p

flushCurrentQuestion(p) ==
    IF p.currentNumber # Null /\ Len(p.currentOptions) > 0 /\ p.currentAnswer # <<>>
    THEN [p EXCEPT !.questions = Append(@,
            [number |-> p.currentNumber,
             text |-> Trim(p.currentText),
             options |-> p.currentOptions,
             answer |-> sortLetters(ToUpperCase(p.currentAnswer)),
             images |-> p.currentImages])]
    ELSE p

\* one iteration of the for loop over blocks
\* ParseBlock with a fault: a line that matches no pattern is appended to the
\* text after options have begun, too
ParseBlock_TextAfterOptions(p, block) ==
    LET text == normalizeText(block.text)
        images == block.images
        qMatch == QuestionMatch(text)
        optionMatch == OptionMatch(text)
        answerMatch == AnswerMatch(text)
    IN  IF qMatch.ok
        THEN [flushCurrentQuestion(p) EXCEPT
                !.currentNumber = NumberOf(qMatch.number),
                !.currentText = qMatch.rest,
                !.currentOptions = <<>>,
                !.currentImages = appendUniqueImages(<<>>, images),
                !.currentAnswer = <<>>]
        ELSE IF optionMatch.ok
        THEN [p EXCEPT
                !.currentOptions =
                    SetOption(@, ToUpper(optionMatch.letter[1]), optionMatch.rest),
                !.currentImages = appendUniqueImages(@, images)]
        ELSE IF answerMatch.ok
        THEN [p EXCEPT !.currentAnswer = ToUpperCase(answerMatch.letters)]
        ELSE IF p.currentNumber # Null
        THEN [p EXCEPT
                !.currentImages = appendUniqueImages(@, images),
                !.currentText =
                    IF text # <<>>
                    THEN (IF @ # <<>> THEN @ \o <<"\n">> \o text ELSE text)
                    ELSE @]
        ELSE p

ParseBlock(p, block) ==
    LET text == normalizeText(block.text)
        images == block.images
        qMatch == QuestionMatch(text)
        optionMatch == OptionMatch(text)
        answerMatch == AnswerMatch(text)
    IN  IF qMatch.ok
        THEN [flushCurrentQuestion(p) EXCEPT
                !.currentNumber = NumberOf(qMatch.number),
                !.currentText = qMatch.rest,
                !.currentOptions = <<>>,
                !.currentImages = appendUniqueImages(<<>>, images),
                !.currentAnswer = <<>>]
        ELSE IF optionMatch.ok
        THEN [p EXCEPT
                !.currentOptions =
                    SetOption(@, ToUpper(optionMatch.letter[1]), optionMatch.rest),
                !.currentImages = appendUniqueImages(@, images)]
        ELSE IF answerMatch.ok
        THEN [p EXCEPT !.currentAnswer = ToUpperCase(answerMatch.letters)]
        ELSE IF p.currentNumber # Null
        THEN [p EXCEPT
                !.currentImages = appendUniqueImages(@, images),
                !.currentText =
                    IF text # <<>> /\ Len(p.currentOptions) = 0
                    THEN (IF @ # <<>> THEN @ \o <<"\n">> \o text ELSE text)
                    ELSE @]
        ELSE p

RECURSIVE ParseBlocks(_, _)
ParseBlocks(p, bs) ==
    IF bs = <<>> THEN p ELSE ParseBlocks(ParseBlock(p, Head(bs)), Tail(bs))

parseQuestionsFromHtml(bs) == flushCurrentQuestion(ParseBlocks(ParserStart, bs)).questions

(***************************************************************************)
(* shuffleArray, prepareQuestion, sampleQuestions, sorting, clamping       *)
(***************************************************************************)
Min(a, b) == IF a < b THEN a ELSE b

Max(a, b) == IF a > b THEN a ELSE b

clamp(num, min, max) == Min(max, Max(min, num))

\* Number(x) || 1 on the integers the settings hold
NumberOrOne(x) == IF x = 0 THEN 1 ELSE x

Swap(s, a, b) == [s EXCEPT ![a] = s[b], ![b] = s[a]]

\* the choices of j = Math.floor(Math.random() * (i + 1)) for i = n-1 .. 1
RandomChoices(n) == {js \in [1..(n - 1) -> 0..(n - 1)] : \A i \in 1..(n - 1) : js[i] <= i}

\* the loop of shuffleArray with the random draws js (indices 0-based)
RECURSIVE FisherYates(_, _, _)
FisherYates(copy, i, js) ==
    IF i < 1 THEN copy
    ELSE FisherYates(Swap(copy, i + 1, js[i] + 1), i - 1, js)

\* every array shuffleArray can return
shuffleArray(array) ==
    {FisherYates(array, Len(array) - 1, js) : js \in RandomChoices(Len(array))}

\* optionMapping[newLetter] = originalLetter, over the forEach of prepareQuestion
OptionMappingOf(shuffledItems) ==
    [l \in Range(SubSeq(LETTERS, 1, Len(shuffledItems))) |->
        shuffledItems[LetterRank(l)].letter]

\* ReverseMappingOf with a fault: the original letter is kept as the new one
ReverseMappingOf_Identity(shuffledItems) ==
    [o \in OptionKeySet(shuffledItems) |-> o]

\* reverseMapping[originalLetter] = newLetter, over the same forEach
ReverseMappingOf(shuffledItems) ==
    [o \in OptionKeySet(shuffledItems) |->
        LETTERS[CHOOSE i \in 1..Len(shuffledItems) : shuffledItems[i].letter = o]]

\* prepareQuestion with a fault: shuffledAnswer keeps the original letters
prepareQuestion_AnswerNotMapped(question, shuffledItems) ==
    LET n == Len(shuffledItems)
        newLetters == SubSeq(LETTERS, 1, n)
    IN  [number |-> question.number, text |-> question.text,
         options |-> question.options, answer |-> question.answer,
         images |-> question.images,
         isMultipleChoice |-> Len(question.answer) > 1,
         shuffledOptions |->
            [i \in 1..n |-> [letter |-> newLetters[i], text |-> shuffledItems[i].text]],
         optionMapping |-> OptionMappingOf(shuffledItems),
         reverseMapping |-> ReverseMappingOf(shuffledItems),
         shuffledAnswer |-> sortLetters(question.answer)]

\* prepareQuestion, given the outcome shuffledItems of its shuffleArray call
prepareQuestion(question, shuffledItems) ==
    LET n == Len(shuffledItems)
        newLetters == SubSeq(LETTERS, 1, n)
        shuffledOptions ==
            [i \in 1..n |-> [letter |-> newLetters[i], text |-> shuffledItems[i].text]]
        optionMapping == OptionMappingOf(shuffledItems)
        reverseMapping == ReverseMappingOf(shuffledItems)
        known == SelectSeq(question.answer, LAMBDA l : l \in DOMAIN reverseMapping)
        shuffledAnswer == sortLetters([i \in 1..Len(known) |-> reverseMapping[known[i]]])
    IN  [number |-> question.number, text |-> question.text,
         options |-> question.options, answer |-> question.answer,
         images |-> question.images,
         isMultipleChoice |-> Len(question.answer) > 1,
         shuffledOptions |-> shuffledOptions,
         optionMapping |-> optionMapping,
         reverseMapping |-> reverseMapping,
         shuffledAnswer |-> shuffledAnswer]

\* every prepared form of a question
PreparedForms(question) ==
    {prepareQuestion(question, items) : items \in shuffleArray(question.options)}

\* selectedQuestions.map(prepareQuestion): every outcome
RECURSIVE PrepareAll(_)
PrepareAll(selected) ==
    IF selected = <<>> THEN {<<>>}
    ELSE {<<p>> \o rest : p \in PreparedForms(Head(selected)),
                          rest \in PrepareAll(Tail(selected))}

\* sampleQuestions with a fault: the first shuffled question fills every slot
sampleQuestions_Repeat(qs, count) ==
    {[i \in 1..Min(count, Len(s)) |-> s[1]] : s \in shuffleArray(qs)}

\* every outcome of sampleQuestions
sampleQuestions(qs, count) == {SubSeq(s, 1, Min(count, Len(s))) : s \in shuffleArray(qs)}

\* [...questions].sort((a, b) => a.number - b.number): a stable sort
RECURSIVE InsertByNumber(_, _)
InsertByNumber(sorted, q) ==
    IF sorted = <<>> THEN <<q>>
    ELSE IF q.number < sorted[Len(sorted)].number
         THEN InsertByNumber(SubSeq(sorted, 1, Len(sorted) - 1), q)
              \o <<sorted[Len(sorted)]>>
         ELSE Append(sorted, q)

RECURSIVE SortByNumber(_)
SortByNumber(qs) ==
    IF qs = <<>> THEN <<>>
    ELSE InsertByNumber(SortByNumber(SubSeq(qs, 1, Len(qs) - 1)), qs[Len(qs)])

sortedQuestions == SortByNumber(questions)

maxQuestionNumber ==
    IF Len(sortedQuestions) > 0 THEN sortedQuestions[Len(sortedQuestions)].number ELSE 0

\* StartIdx with a fault: > instead of >=
StartIdx_Strict(sorted, startNumber) ==
    LET hits == {i \in 0..(Len(sorted) - 1) : sorted[i + 1].number > startNumber}
    IN  IF hits = {} THEN 0 ELSE CHOOSE i \in hits : \A j \in hits : i <= j

\* the startIdx loop of computeSequentialMaxCount and of startQuiz (0-based)
StartIdx(sorted, startNumber) ==
    LET hits == {i \in 0..(Len(sorted) - 1) : sorted[i + 1].number >= startNumber}
    IN  IF hits = {} THEN 0 ELSE CHOOSE i \in hits : \A j \in hits : i <= j

computeSequentialMaxCount(sorted, startNumber) ==
    IF Len(sorted) = 0 THEN 1
    ELSE Max(1, Len(sorted) - StartIdx(sorted, startNumber))

(***************************************************************************)
(* The files the user can hand to loadDocxFile.  A file is its name (stem  *)
(* and extension), whether mammoth.convertToHtml throws on it, and the     *)
(* blocks extractBlocksFromHtml finds in the converted document.           *)
(***************************************************************************)
Line(text) == [text |-> text, images |-> <<>>]

\* "2. S" "A. x" "B. y" "Answer: A" "1. T" "A. z" "Answer: A"
TwoDoc ==
    << Line(<<"2", ".", " ", "S">>), Line(<<"A", ".", " ", "x">>),
       Line(<<"B", ".", " ", "y">>),
       Line(<<"A", "n", "s", "w", "e", "r", ":", " ", "A">>),
       Line(<<"1", ".", " ", "T">>), Line(<<"A", ".", " ", "z">>),
       Line(<<"A", "n", "s", "w", "e", "r", ":", " ", "A">>) >>

\* "2. M" "A. x" "B. y" "C. z" "Answer: CA"
MultiDoc ==
    << Line(<<"2", ".", " ", "M">>), Line(<<"A", ".", " ", "x">>),
       Line(<<"B", ".", " ", "y">>), Line(<<"C", ".", " ", "z">>),
       Line(<<"A", "n", "s", "w", "e", "r", ":", " ", "C", "A">>) >>

\* a document with no question in it
EmptyDoc == << Line(<<"n", "o", "t", "e">>) >>

\* "3. P" "A. x" "B. y" "Answer: A" "1. Q" "C. x" "A. y" "Answer: C"
\* "3. R" "B. z" "Answer: B"
GapsDoc ==
    << Line(<<"3", ".", " ", "P">>), Line(<<"A", ".", " ", "x">>),
       Line(<<"B", ".", " ", "y">>),
       Line(<<"A", "n", "s", "w", "e", "r", ":", " ", "A">>),
       Line(<<"1", ".", " ", "Q">>), Line(<<"C", ".", " ", "x">>),
       Line(<<"A", ".", " ", "y">>),
       Line(<<"A", "n", "s", "w", "e", "r", ":", " ", "C">>),
       Line(<<"3", ".", " ", "R">>), Line(<<"B", ".", " ", "z">>),
       Line(<<"A", "n", "s", "w", "e", "r", ":", " ", "B">>) >>

\* "7. W" "D. x" "A. y" "F. z" "B. w" "Answer: DB"
WideDoc ==
    << Line(<<"7", ".", " ", "W">>), Line(<<"D", ".", " ", "x">>),
       Line(<<"A", ".", " ", "y">>), Line(<<"F", ".", " ", "z">>),
       Line(<<"B", ".", " ", "w">>),
       Line(<<"A", "n", "s", "w", "e", "r", ":", " ", "D", "B">>) >>

\* "0. Z" "A. x" "Answer: A"
ZeroDoc ==
    << Line(<<"0", ".", " ", "Z">>), Line(<<"A", ".", " ", "x">>),
       Line(<<"A", "n", "s", "w", "e", "r", ":", " ", "A">>) >>

\* "2. S" "A. x" "B. y" "Answer: A" "3. U" "A. w" "B. v" "C. u" "Answer: B"
PairDoc ==
    << Line(<<"2", ".", " ", "S">>), Line(<<"A", ".", " ", "x">>),
       Line(<<"B", ".", " ", "y">>),
       Line(<<"A", "n", "s", "w", "e", "r", ":", " ", "A">>),
       Line(<<"3", ".", " ", "U">>), Line(<<"A", ".", " ", "w">>),
       Line(<<"B", ".", " ", "v">>), Line(<<"C", ".", " ", "u">>),
       Line(<<"A", "n", "s", "w", "e", "r", ":", " ", "B">>) >>

\* "2. S" "A. x" "B. y" "Answer: A" "3. U" "A. w" "B. v" "Answer: B"
DuoDoc ==
    << Line(<<"2", ".", " ", "S">>), Line(<<"A", ".", " ", "x">>),
       Line(<<"B", ".", " ", "y">>),
       Line(<<"A", "n", "s", "w", "e", "r", ":", " ", "A">>),
       Line(<<"3", ".", " ", "U">>), Line(<<"A", ".", " ", "w">>),
       Line(<<"B", ".", " ", "v">>),
       Line(<<"A", "n", "s", "w", "e", "r", ":", " ", "B">>) >>

\* "5. V" "D. x" "B. y" "E. z" "Answer: DB" "6. K" "B. u" "A. v" "Answer: B"
MixedDoc ==
    << Line(<<"5", ".", " ", "V">>), Line(<<"D", ".", " ", "x">>),
       Line(<<"B", ".", " ", "y">>), Line(<<"E", ".", " ", "z">>),
       Line(<<"A", "n", "s", "w", "e", "r", ":", " ", "D", "B">>),
       Line(<<"6", ".", " ", "K">>), Line(<<"B", ".", " ", "u">>),
       Line(<<"A", ".", " ", "v">>),
       Line(<<"A", "n", "s", "w", "e", "r", ":", " ", "B">>) >>

\* "4. N" "B. x" "D. y" "Answer: DB", then "5. O" "A. x" "B. y" "answer CA"
\* (C is no option) and "6. P" "A. x" "B. y" "Answer:bb" (a letter twice)
OddDoc ==
    << Line(<<"4", ".", " ", "N">>), Line(<<"B", ".", " ", "x">>),
       Line(<<"D", ".", " ", "y">>),
       Line(<<"A", "n", "s", "w", "e", "r", ":", " ", "D", "B">>),
       Line(<<"5", ".", " ", "O">>), Line(<<"A", ".", " ", "x">>),
       Line(<<"B", ".", " ", "y">>),
       Line(<<"a", "n", "s", "w", "e", "r", " ", "C", "A">>),
       Line(<<"6", ".", " ", "P">>), Line(<<"A", ".", " ", "x">>),
       Line(<<"B", ".", " ", "y">>),
       Line(<<"A", "n", "s", "w", "e", "r", ":", "b", "b">>) >>

\* TwoDoc followed by "3. U" "A. w" "Answer: A"
ThreeDoc ==
    TwoDoc \o << Line(<<"3", ".", " ", "U">>), Line(<<"A", ".", " ", "w">>),
                 Line(<<"A", "n", "s", "w", "e", "r", ":", " ", "A">>) >>

FileTable ==
    [two    |-> [name |-> <<"two", ".docx">>, throws |-> FALSE, blocks |-> TwoDoc],
     multi  |-> [name |-> <<"multi", ".DOCX">>, throws |-> FALSE, blocks |-> MultiDoc],
     empty  |-> [name |-> <<"empty", ".docx">>, throws |-> FALSE, blocks |-> EmptyDoc],
     broken |-> [name |-> <<"broken", ".docx">>, throws |-> TRUE, blocks |-> <<>>],
     notes  |-> [name |-> <<"notes", ".txt">>, throws |-> FALSE, blocks |-> EmptyDoc],
     gaps   |-> [name |-> <<"gaps", ".docx">>, throws |-> FALSE, blocks |-> GapsDoc],
     wide   |-> [name |-> <<"wide", ".docx">>, throws |-> FALSE, blocks |-> WideDoc],
     zero   |-> [name |-> <<"zero", ".docx">>, throws |-> FALSE, blocks |-> ZeroDoc],
     pair   |-> [name |-> <<"pair", ".docx">>, throws |-> FALSE, blocks |-> PairDoc],
     three  |-> [name |-> <<"three", ".docx">>, throws |-> FALSE, blocks |-> ThreeDoc],
     duo    |-> [name |-> <<"duo", ".docx">>, throws |-> FALSE, blocks |-> DuoDoc],
     mixed  |-> [name |-> <<"mixed", ".docx">>, throws |-> FALSE, blocks |-> MixedDoc],
     odd    |-> [name |-> <<"odd", ".docx">>, throws |-> FALSE, blocks |-> OddDoc]]

\* the files of the settings specification
SettingsFiles == {"gaps", "wide", "zero"}

RunFiles == {"two", "multi"}

\* parseQuestionsFromHtml(result.value) for each file, computed once
ParsedQuestions ==
    [file \in DOMAIN FileTable |-> parseQuestionsFromHtml(FileTable[file].blocks)]

\* file.name.toLowerCase().endsWith(".docx")
ToLowerExt(ext) == IF ext = ".DOCX" THEN ".docx" ELSE ext

IsDocxName(name) == ToLowerExt(name[Len(name)]) = ".docx"

(***************************************************************************)
(* The App component                                                       *)
(***************************************************************************)
\* useRef(null): no auto-advance timer is pending
\* a pending timer holds the quizQuestions.length its callback closed over;
\* index records where it was scheduled and is read by no action
NoTimer == [length |-> 0, index |-> 0]

\* A localStorage item: absent (getItem gives null or ""), text JSON.parse
\* throws on, the text "null", or the JSON text of a value.  The values
\* stored here are arrays of plain objects of strings, numbers and booleans,
\* which JSON.parse(JSON.stringify(v)) gives back field by field, so the
\* text of a value is represented by the value it parses to.
JsonStringify(value) == [kind |-> "json", value |-> value]

StorageAbsent == [kind |-> "absent", value |-> <<>>]

StorageCorrupt == [kind |-> "corrupt", value |-> <<>>]

StorageNull == [kind |-> "null", value |-> <<>>]

\* readJsonStorage with a fault: the stored value is never used
readJsonStorage_Fallback(item, fallback) == fallback

readJsonStorage(item, fallback) ==
    IF item.kind = "absent" THEN fallback
    ELSE IF item.kind = "corrupt" THEN fallback
    ELSE IF item.kind = "null" THEN fallback
    ELSE item.value

\* useState({mode: "random", numQuestions: 100, startQuestion: 1})
InitialNumQuestions == 100

\* Math.min(100, parsedQuestions.length)
LoadNumQuestions == 100

\* the most loads in flight at once
MaxPending == 1

\* the largest value typed into the two number inputs of the settings dialog
MaxInput == 3

AppInit ==
    /\ questions = <<>>
    /\ quizQuestions = <<>>
    /\ settings = [mode |-> "random", numQuestions |-> InitialNumQuestions,
                   startQuestion |-> 1]
    /\ currentIndex = 0
    /\ score = 0
    /\ answersState = <<>>
    /\ draftSelections = <<>>
    /\ warning = ""
    /\ wrongAnswers = <<>>
    /\ autoNextTimer = NoTimer
    /\ showSettings = FALSE
    /\ showFinalModal = FALSE
    /\ loading = FALSE
    /\ loadError = ""
    /\ pendingLoads = <<>>
    /\ showWrongModal = FALSE
    /\ wrongStorage = JsonStringify(wrongAnswers)
    /\ fontSize = DEFAULT_FONT_SIZE
    /\ lastDropped = ""

ParseIdle ==
    /\ blocks = <<>>
    /\ blockIdx = 0
    /\ parser = ParserStart

answeredCount == Cardinality(DOMAIN answersState)

HasCurrentQuestion == currentIndex < Len(quizQuestions)

currentQuestion == quizQuestions[currentIndex + 1]

HasCurrentResult == currentIndex \in DOMAIN answersState

\* draftSelections[currentIndex] || []
CurrentDraft ==
    IF currentIndex \in DOMAIN draftSelections THEN draftSelections[currentIndex] ELSE <<>>

\* draftSelections[currentIndex] || currentResult?.selected || []
currentSelected ==
    IF currentIndex \in DOMAIN draftSelections THEN draftSelections[currentIndex]
    ELSE IF HasCurrentResult THEN answersState[currentIndex].selected
    ELSE <<>>

\* {...prev, [key]: value}
Put(obj, key, value) == (key :> value) @@ obj

\* resetRunState with a fault: the final summary stays as it was
resetRunState_KeepModal ==
    /\ currentIndex' = 0
    /\ score' = 0
    /\ answersState' = <<>>
    /\ draftSelections' = <<>>
    /\ warning' = ""
    /\ showFinalModal' = showFinalModal

\* resetRunState with a fault: the score is kept
resetRunState_KeepScore ==
    /\ currentIndex' = 0
    /\ score' = score
    /\ answersState' = <<>>
    /\ draftSelections' = <<>>
    /\ warning' = ""
    /\ showFinalModal' = FALSE

resetRunState ==
    /\ currentIndex' = 0
    /\ score' = 0
    /\ answersState' = <<>>
    /\ draftSelections' = <<>>
    /\ warning' = ""
    /\ showFinalModal' = FALSE

\* upsertWrongAnswer with a fault: the record is always appended
upsertWrongAnswer_Append(prev, question, userAnswerOriginal) ==
    Append(prev, [original_number |-> question.number,
                  question_text |-> question.text,
                  options |-> question.options,
                  correct_answer |-> question.answer,
                  user_answer |-> userAnswerOriginal,
                  is_multiple_choice |-> question.isMultipleChoice])

\* upsertWrongAnswer with a fault: the entry of a number already in the log
\* is removed and the new record is put at the end
upsertWrongAnswer_MoveToEnd(prev, question, userAnswerOriginal) ==
    Append(SelectSeq(prev, LAMBDA item : item.original_number # question.number),
           [original_number |-> question.number,
            question_text |-> question.text,
            options |-> question.options,
            correct_answer |-> question.answer,
            user_answer |-> userAnswerOriginal,
            is_multiple_choice |-> question.isMultipleChoice])

\* the setWrongAnswers updater of upsertWrongAnswer (the timestamp is left out)
upsertWrongAnswer(prev, question, userAnswerOriginal) ==
    LET record == [original_number |-> question.number,
                   question_text |-> question.text,
                   options |-> question.options,
                   correct_answer |-> question.answer,
                   user_answer |-> userAnswerOriginal,
                   is_multiple_choice |-> question.isMultipleChoice]
        found == {i \in 1..Len(prev) : prev[i].original_number = record.original_number}
    IN  IF found # {}
        THEN [prev EXCEPT ![CHOOSE i \in found : \A j \in found : i <= j] = record]
        ELSE Append(prev, record)

(***************************************************************************)
(* loadDocxFile: the part up to the first await, and the continuation      *)
(***************************************************************************)
PendingCount(file) == IF file \in DOMAIN pendingLoads THEN pendingLoads[file] ELSE 0

PendingTotal ==
    LET RECURSIVE Sum(_)
        Sum(fs) == IF fs = {} THEN 0
                   ELSE LET f == CHOOSE x \in fs : TRUE
                        IN  pendingLoads[f] + Sum(fs \ {f})
    IN  Sum(DOMAIN pendingLoads)

AddPending(file) == Put(pendingLoads, file, PendingCount(file) + 1)

RemovePending(file) ==
    IF pendingLoads[file] > 1 THEN [pendingLoads EXCEPT ![file] = @ - 1]
    ELSE [f \in (DOMAIN pendingLoads) \ {file} |-> pendingLoads[f]]

\* loadDocxFile(file) until it suspends at await file.arrayBuffer(); a name
\* that does not end in .docx throws before that and the call ends at once
loadDocxFileStart(file, limit) ==
    /\ loadError' = (IF IsDocxName(FileTable[file].name) THEN "" ELSE "NotDocx")
    /\ IF IsDocxName(FileTable[file].name)
       THEN /\ PendingTotal < limit
            /\ loading' = TRUE
            /\ pendingLoads' = AddPending(file)
       ELSE /\ loading' = FALSE
            /\ UNCHANGED pendingLoads
    /\ UNCHANGED <<questions, quizQuestions, settings, currentIndex, score,
                   answersState, draftSelections, warning, wrongAnswers, wrongStorage, fontSize,
                   autoNextTimer, showSettings, showWrongModal, showFinalModal>>
    /\ UNCHANGED parseVars

\* a file chosen in the file input or dropped on the upload zone
LoadStart(file) == loadDocxFileStart(file, MaxPending) /\ UNCHANGED lastDropped

\* LoadFinish with a fault: the bank is dropped and the run reset before the
\* outcome of the conversion is known
LoadFinish_ResetsFirst(file) ==
    /\ file \in DOMAIN pendingLoads
    /\ pendingLoads' = RemovePending(file)
    /\ loading' = FALSE
    /\ LET parsedQuestions == ParsedQuestions[file] IN
       /\ questions' = (IF FileTable[file].throws THEN <<>> ELSE parsedQuestions)
       /\ IF FileTable[file].throws \/ Len(parsedQuestions) = 0
          THEN /\ loadError' = (IF FileTable[file].throws THEN "ConvertFailed"
                                ELSE "NoQuestions")
               /\ UNCHANGED <<settings, showSettings>>
          ELSE /\ settings' = [mode |-> "random",
                               numQuestions |-> Min(LoadNumQuestions, Len(parsedQuestions)),
                               startQuestion |-> 1]
               /\ showSettings' = TRUE
               /\ UNCHANGED loadError
    /\ quizQuestions' = <<>>
    /\ resetRunState
    /\ UNCHANGED <<wrongAnswers, wrongStorage, fontSize, lastDropped, autoNextTimer, showWrongModal>>
    /\ UNCHANGED parseVars

\* the continuation of loadDocxFile(file) after the conversion settles
LoadFinish(file) ==
    /\ file \in DOMAIN pendingLoads
    /\ pendingLoads' = RemovePending(file)
    /\ loading' = FALSE
    /\ LET parsedQuestions == ParsedQuestions[file] IN
       IF FileTable[file].throws
       THEN /\ loadError' = "ConvertFailed"
            /\ UNCHANGED <<questions, quizQuestions, settings, currentIndex, score,
                           answersState, draftSelections, warning, showSettings, showWrongModal,
                           showFinalModal>>
       ELSE IF Len(parsedQuestions) = 0
       THEN /\ loadError' = "NoQuestions"
            /\ UNCHANGED <<questions, quizQuestions, settings, currentIndex, score,
                           answersState, draftSelections, warning, showSettings, showWrongModal,
                           showFinalModal>>
       ELSE /\ questions' = parsedQuestions
            /\ settings' = [mode |-> "random",
                            numQuestions |-> Min(LoadNumQuestions, Len(parsedQuestions)),
                            startQuestion |-> 1]
            /\ showSettings' = TRUE
            /\ quizQuestions' = <<>>
            /\ resetRunState
            /\ UNCHANGED <<loadError, showWrongModal>>
    /\ UNCHANGED <<wrongAnswers, wrongStorage, fontSize, lastDropped, autoNextTimer>>
    /\ UNCHANGED parseVars

(***************************************************************************)
(* SettingsModal: rendered only while showSettings holds                   *)
(***************************************************************************)
safeTotal == Max(1, Len(questions))

updateMode(mode) ==
    LET maxCount == IF mode = "sequential"
                    THEN computeSequentialMaxCount(sortedQuestions, settings.startQuestion)
                    ELSE safeTotal
    IN  settings' = [settings EXCEPT !.mode = mode,
                                     !.numQuestions = clamp(@, 1, maxCount)]

updateNumQuestions(value) ==
    LET maxCount == IF settings.mode = "sequential"
                    THEN computeSequentialMaxCount(sortedQuestions, settings.startQuestion)
                    ELSE safeTotal
    IN  settings' = [settings EXCEPT !.numQuestions = clamp(NumberOrOne(value), 1, maxCount)]

updateStartQuestion(value) ==
    LET nextStart == clamp(NumberOrOne(value), 1, Max(1, maxQuestionNumber))
        maxCount == computeSequentialMaxCount(sortedQuestions, nextStart)
    IN  settings' = [settings EXCEPT !.startQuestion = nextStart,
                                     !.numQuestions = clamp(@, 1, maxCount)]

SettingsFrame ==
    /\ UNCHANGED <<questions, quizQuestions, currentIndex, score, answersState,
                   draftSelections, warning, wrongAnswers, wrongStorage, fontSize, lastDropped, autoNextTimer,
                   showSettings, showWrongModal, showFinalModal, loading, loadError, pendingLoads>>
    /\ UNCHANGED parseVars

UpdateMode ==
    /\ showSettings
    /\ \E mode \in {"random", "sequential"} : updateMode(mode)
    /\ SettingsFrame

UpdateNumQuestions ==
    /\ showSettings
    /\ \E value \in 0..MaxInput : updateNumQuestions(value)
    /\ SettingsFrame

\* the start-question input is rendered in sequential mode only
UpdateStartQuestion ==
    /\ showSettings
    /\ settings.mode = "sequential"
    /\ \E value \in 0..MaxInput : updateStartQuestion(value)
    /\ SettingsFrame

\* onClose of the settings dialog
CloseSettings ==
    /\ showSettings
    /\ showSettings' = FALSE
    /\ UNCHANGED <<questions, quizQuestions, settings, currentIndex, score,
                   answersState, draftSelections, warning, wrongAnswers, wrongStorage, fontSize, lastDropped,
                   autoNextTimer, showFinalModal, loading, loadError, pendingLoads,
                   showWrongModal>>
    /\ UNCHANGED parseVars

\* the restart button is disabled while no bank is loaded
restartQuiz ==
    /\ Len(questions) > 0
    /\ showSettings' = TRUE
    /\ UNCHANGED <<questions, quizQuestions, settings, currentIndex, score,
                   answersState, draftSelections, warning, wrongAnswers, wrongStorage, fontSize, lastDropped,
                   autoNextTimer, showFinalModal, loading, loadError, pendingLoads,
                   showWrongModal>>
    /\ UNCHANGED parseVars

(***************************************************************************)
(* startQuiz                                                               *)
(***************************************************************************)
\* the questions startQuiz can select (every outcome of the shuffle)
SelectedQuestions ==
    LET startQuestion == clamp(NumberOrOne(settings.startQuestion), 1,
                               Max(1, maxQuestionNumber))
    IN  IF settings.mode = "sequential"
        THEN LET startIdx == StartIdx(sortedQuestions, startQuestion)
                 maxCount == Max(1, Len(sortedQuestions) - startIdx)
                 count == clamp(NumberOrOne(settings.numQuestions), 1, maxCount)
             IN  {SubSeq(sortedQuestions, startIdx + 1,
                         Min(startIdx + count, Len(sortedQuestions)))}
        ELSE LET count == clamp(NumberOrOne(settings.numQuestions), 1, Len(questions))
             IN  sampleQuestions(questions, count)

startQuiz ==
    /\ showSettings
    /\ Len(questions) > 0
    /\ \E selectedQuestions \in SelectedQuestions :
         \E prepared \in PrepareAll(selectedQuestions) :
            quizQuestions' = prepared
    /\ resetRunState
    /\ showSettings' = FALSE
    /\ UNCHANGED <<questions, settings, wrongAnswers, wrongStorage, fontSize, lastDropped, autoNextTimer, loading,
                   loadError, pendingLoads, showWrongModal>>
    /\ UNCHANGED parseVars

(***************************************************************************)
(* The question card: changeOption, submitAnswer, previous / next, the     *)
(* auto-advance timer and the completion effect                            *)
(***************************************************************************)
\* AnswerLocked with a fault: an answered question is not locked
AnswerLocked_Unanswered == ~HasCurrentQuestion

\* if (!currentQuestion || currentResult) return;
AnswerLocked == ~HasCurrentQuestion \/ HasCurrentResult

changeOption(letter, checked) ==
    IF AnswerLocked THEN UNCHANGED vars
    ELSE LET existing == CurrentDraft
             next == IF currentQuestion.isMultipleChoice
                     THEN IF checked
                          THEN sortLetters(IF letter \in Range(existing) THEN existing
                                           ELSE Append(existing, letter))
                          ELSE SelectSeq(existing, LAMBDA item : item # letter)
                     ELSE IF checked THEN <<letter>> ELSE <<>>
         IN  /\ warning' = ""
             /\ draftSelections' = Put(draftSelections, currentIndex, next)
             /\ UNCHANGED <<questions, quizQuestions, settings, currentIndex, score,
                            answersState, wrongAnswers, wrongStorage, fontSize, lastDropped, autoNextTimer, showSettings, showWrongModal,
                            showFinalModal, loading, loadError, pendingLoads>>
             /\ UNCHANGED parseVars

\* a click on an option of the rendered card: a checkbox toggles, a radio
\* button fires only when it becomes checked
ChangeOption ==
    /\ HasCurrentQuestion
    /\ \E letter \in OptionKeySet(currentQuestion.shuffledOptions) :
         \E checked \in BOOLEAN :
            /\ checked = (letter \notin Range(currentSelected))
            /\ currentQuestion.isMultipleChoice \/ checked
            /\ changeOption(letter, checked)

\* SubmitWarning with a fault: a multi-choice selection passes when it has at
\* least the required number of letters
SubmitWarning_AtLeast(question, selected) ==
    IF Len(selected) = 0 THEN "NoSelection"
    ELSE IF question.isMultipleChoice /\ Len(selected) < Len(question.answer)
    THEN "WrongCount"
    ELSE ""

\* the two validation returns of submitAnswer: "" when the selection passes
SubmitWarning(question, selected) ==
    IF Len(selected) = 0 THEN "NoSelection"
    ELSE IF question.isMultipleChoice /\ Len(selected) # Len(question.answer)
    THEN "WrongCount"
    ELSE ""

\* ToOriginal with a fault: the shuffled letters are kept
ToOriginal_Shuffled(question, selected) == sortLetters(selected)

\* selected.map((letter) => optionMapping[letter] || letter), sorted
ToOriginal(question, selected) ==
    sortLetters([i \in 1..Len(selected) |->
        IF selected[i] \in DOMAIN question.optionMapping
        THEN question.optionMapping[selected[i]] ELSE selected[i]])

\* the effect on [answeredCount, quizQuestions.length], after the update
CompletionEffect ==
    showFinalModal' =
        IF Len(quizQuestions') > 0 /\ Cardinality(DOMAIN answersState') = Len(quizQuestions')
        THEN TRUE ELSE showFinalModal

\* whether an accepted, correct answer schedules the auto-advance timer
SchedulesAutoNext(isCorrect) == isCorrect /\ currentIndex < Len(quizQuestions) - 1

submitAnswer ==
    IF AnswerLocked THEN UNCHANGED vars
    ELSE LET selected == sortLetters(CurrentDraft)
             rejected == SubmitWarning(currentQuestion, selected)
             userAnswerShuffled == selected
             userAnswerOriginal == ToOriginal(currentQuestion, selected)
             isCorrect == userAnswerShuffled = currentQuestion.shuffledAnswer
         IN  IF rejected # ""
             THEN /\ warning' = rejected
                  /\ UNCHANGED <<questions, quizQuestions, settings, currentIndex,
                                 score, answersState, draftSelections, wrongAnswers, wrongStorage, fontSize, lastDropped,
                                 autoNextTimer, showSettings, showWrongModal, showFinalModal,
                                 loading, loadError, pendingLoads>>
                  /\ UNCHANGED parseVars
             ELSE /\ answersState' = Put(answersState, currentIndex,
                        [selected |-> selected, isCorrect |-> isCorrect,
                         userAnswerShuffled |-> userAnswerShuffled,
                         userAnswerOriginal |-> userAnswerOriginal])
                  /\ score' = (IF isCorrect THEN score + 1 ELSE score)
                  /\ wrongAnswers' =
                        (IF isCorrect THEN wrongAnswers
                         ELSE upsertWrongAnswer(wrongAnswers, currentQuestion,
                                                userAnswerOriginal))
                  /\ wrongStorage' =
                        (IF isCorrect THEN wrongStorage
                         ELSE JsonStringify(wrongAnswers'))
                  /\ warning' = ""
                  /\ autoNextTimer' =
                        (IF SchedulesAutoNext(isCorrect)
                         THEN [length |-> Len(quizQuestions), index |-> currentIndex]
                         ELSE autoNextTimer)
                  /\ UNCHANGED <<questions, quizQuestions, settings, currentIndex,
                                 draftSelections, showSettings, showWrongModal, loading, loadError,
                                 pendingLoads, fontSize, lastDropped>>
                  /\ CompletionEffect
                  /\ UNCHANGED parseVars

\* a click on the submit button of the rendered card
SubmitAnswer ==
    /\ HasCurrentQuestion
    /\ submitAnswer

NavigationFrame ==
    /\ UNCHANGED <<questions, quizQuestions, settings, score, answersState,
                   draftSelections, wrongAnswers, wrongStorage, fontSize, lastDropped, showSettings, showWrongModal, showFinalModal,
                   loading, loadError, pendingLoads>>
    /\ UNCHANGED parseVars

\* the previous button, disabled at the first question
PreviousQuestion ==
    /\ HasCurrentQuestion
    /\ ~(currentIndex <= 0)
    /\ currentIndex' = Max(currentIndex - 1, 0)
    /\ warning' = ""
    /\ UNCHANGED autoNextTimer
    /\ NavigationFrame

\* the next button, disabled at the last question
NextQuestion ==
    /\ HasCurrentQuestion
    /\ ~(currentIndex >= Len(quizQuestions) - 1)
    /\ currentIndex' = Min(currentIndex + 1, Len(quizQuestions) - 1)
    /\ warning' = ""
    /\ UNCHANGED autoNextTimer
    /\ NavigationFrame

\* the setTimeout callback of submitAnswer runs; autoNextTimer holds what
\* its closure captured when it was scheduled: quizQuestions.length, which
\* the callback reads, and currentIndex, which it does not
AutoNextFire ==
    /\ autoNextTimer # NoTimer
    /\ currentIndex' = Min(currentIndex + 1, autoNextTimer.length - 1)
    /\ autoNextTimer' = NoTimer
    /\ UNCHANGED warning
    /\ NavigationFrame

\* the props App passes to FinalResultModal
FinalResultModal ==
    [visible |-> showFinalModal, total |-> Len(quizQuestions), score |-> score,
     wrongCount |-> Len(wrongAnswers)]

\* onClose of FinalResultModal
CloseFinalModal ==
    /\ showFinalModal
    /\ showFinalModal' = FALSE
    /\ UNCHANGED <<questions, quizQuestions, settings, currentIndex, score,
                   answersState, draftSelections, warning, wrongAnswers, wrongStorage, fontSize, lastDropped,
                   autoNextTimer, showSettings, showWrongModal, loading, loadError, pendingLoads>>
    /\ UNCHANGED parseVars

(***************************************************************************)
(* The wrong-answer dialog, clearWrongAnswers and the start of a session   *)
(***************************************************************************)
WrongModalFrame ==
    /\ UNCHANGED <<questions, quizQuestions, settings, currentIndex, score,
                   answersState, draftSelections, warning, autoNextTimer,
                   showSettings, showFinalModal, loading, loadError, pendingLoads,
                   fontSize, lastDropped>>
    /\ UNCHANGED parseVars

\* the toolbar button that opens the dialog
OpenWrongModal ==
    /\ showWrongModal' = TRUE
    /\ UNCHANGED <<wrongAnswers, wrongStorage, fontSize, lastDropped>>
    /\ WrongModalFrame

\* onClose of WrongAnswersModal
CloseWrongModal ==
    /\ showWrongModal
    /\ showWrongModal' = FALSE
    /\ UNCHANGED <<wrongAnswers, wrongStorage, fontSize, lastDropped>>
    /\ WrongModalFrame

\* clearWrongAnswers with a fault: the answer of window.confirm is ignored
clearWrongAnswers_Unasked(confirmed) ==
    /\ wrongAnswers' = <<>>
    /\ wrongStorage' = JsonStringify(wrongAnswers')
    /\ showWrongModal' = FALSE
    /\ UNCHANGED <<questions, quizQuestions, settings, currentIndex, score,
                   answersState, draftSelections, warning, autoNextTimer,
                   showSettings, showFinalModal, loading, loadError, pendingLoads,
                   fontSize, lastDropped>>
    /\ UNCHANGED parseVars

\* clearWrongAnswers with a fault: a confirmed clear discards the run as well
clearWrongAnswers_DropsRun(confirmed) ==
    /\ IF confirmed
       THEN /\ wrongAnswers' = <<>>
            /\ wrongStorage' = JsonStringify(wrongAnswers')
            /\ showWrongModal' = FALSE
            /\ quizQuestions' = <<>>
       ELSE UNCHANGED <<wrongAnswers, wrongStorage, showWrongModal, quizQuestions>>
    /\ UNCHANGED <<questions, settings, currentIndex, score,
                   answersState, draftSelections, warning, autoNextTimer,
                   showSettings, showFinalModal, loading, loadError, pendingLoads,
                   fontSize, lastDropped>>
    /\ UNCHANGED parseVars

\* confirmed is what window.confirm returns; the persistence effect writes
\* the emptied log to storage
clearWrongAnswers(confirmed) ==
    /\ IF confirmed
       THEN /\ wrongAnswers' = <<>>
            /\ wrongStorage' = JsonStringify(wrongAnswers')
            /\ showWrongModal' = FALSE
       ELSE UNCHANGED <<wrongAnswers, wrongStorage, showWrongModal>>
    /\ WrongModalFrame

\* the clear button of the dialog, disabled while the log is empty
ClearWrongAnswers ==
    /\ showWrongModal
    /\ ~(Len(wrongAnswers) = 0)
    /\ \E confirmed \in BOOLEAN : clearWrongAnswers(confirmed)

\* setFontSize((prev) => clamp(prev + delta, MIN_FONT_SIZE, MAX_FONT_SIZE))
setFontSize(delta) ==
    /\ fontSize' = clamp(fontSize + delta, MIN_FONT_SIZE, MAX_FONT_SIZE)
    /\ UNCHANGED <<questions, quizQuestions, settings, currentIndex, score,
                   answersState, draftSelections, warning, wrongAnswers, wrongStorage,
                   autoNextTimer, showSettings, showWrongModal, showFinalModal,
                   loading, loadError, pendingLoads, lastDropped>>
    /\ UNCHANGED parseVars

\* the A- button of the toolbar
DecreaseFont == setFontSize(-2)

\* the A+ button of the toolbar
IncreaseFont == setFontSize(2)

\* The page is closed and opened again: the unmount cleanup clears the
\* timer, unfinished loads die with the page, every useState starts from its
\* initial value, wrongAnswers from readJsonStorage, and the persistence
\* effect of the first render writes the log back.
NewSession ==
    /\ questions' = <<>>
    /\ quizQuestions' = <<>>
    /\ settings' = [mode |-> "random", numQuestions |-> InitialNumQuestions,
                    startQuestion |-> 1]
    /\ currentIndex' = 0
    /\ score' = 0
    /\ answersState' = <<>>
    /\ draftSelections' = <<>>
    /\ warning' = ""
    /\ wrongAnswers' = readJsonStorage(wrongStorage, <<>>)
    /\ wrongStorage' = JsonStringify(wrongAnswers')
    /\ fontSize' = clamp(fontSize, MIN_FONT_SIZE, MAX_FONT_SIZE)
    /\ lastDropped' = ""
    /\ autoNextTimer' = NoTimer
    /\ showSettings' = FALSE
    /\ showWrongModal' = FALSE
    /\ showFinalModal' = FALSE
    /\ loading' = FALSE
    /\ loadError' = ""
    /\ pendingLoads' = <<>>
    /\ UNCHANGED parseVars

(***************************************************************************)
(* Specifications                                                          *)
(***************************************************************************)
Init == AppInit /\ ParseIdle

Next ==
    \/ \E file \in RunFiles : LoadStart(file)
    \/ \E file \in RunFiles : LoadFinish(file)
    \/ UpdateMode
    \/ UpdateNumQuestions
    \/ UpdateStartQuestion
    \/ CloseSettings
    \/ restartQuiz
    \/ startQuiz
    \/ ChangeOption
    \/ SubmitAnswer
    \/ PreviousQuestion
    \/ NextQuestion
    \/ AutoNextFire
    \/ CloseFinalModal

Spec == Init /\ [][Next]_vars

\* the settings dialog and startQuiz on banks with gaps, repeated and
\* unsorted numbers, a number 0 and unordered option keys
SettingsNext ==
    \/ \E file \in SettingsFiles : LoadStart(file)
    \/ \E file \in SettingsFiles : LoadFinish(file)
    \/ UpdateMode
    \/ UpdateNumQuestions
    \/ UpdateStartQuestion
    \/ CloseSettings
    \/ restartQuiz
    \/ startQuiz

SpecSettings == Init /\ [][SettingsNext]_vars

(***************************************************************************)
(* Runs over one bank of two questions: the application as the first       *)
(* successful loadDocxFile leaves it, then the events of the quiz card and *)
(* of the settings modal that start and restart runs                       *)
(***************************************************************************)
BankLoaded(file) ==
    /\ questions = ParsedQuestions[file]
    /\ quizQuestions = <<>>
    /\ settings = [mode |-> "random",
                   numQuestions |-> Min(LoadNumQuestions, Len(ParsedQuestions[file])),
                   startQuestion |-> 1]
    /\ currentIndex = 0
    /\ score = 0
    /\ answersState = <<>>
    /\ draftSelections = <<>>
    /\ warning = ""
    /\ wrongAnswers = <<>>
    /\ autoNextTimer = NoTimer
    /\ showSettings = TRUE
    /\ showFinalModal = FALSE
    /\ loading = FALSE
    /\ loadError = ""
    /\ pendingLoads = <<>>
    /\ showWrongModal = FALSE
    /\ wrongStorage = JsonStringify(wrongAnswers)
    /\ fontSize = DEFAULT_FONT_SIZE
    /\ lastDropped = ""
    /\ ParseIdle

RunInit == BankLoaded("pair")

RunNext ==
    \/ CloseSettings
    \/ restartQuiz
    \/ startQuiz
    \/ ChangeOption
    \/ SubmitAnswer
    \/ PreviousQuestion
    \/ NextQuestion
    \/ AutoNextFire
    \/ CloseFinalModal

SpecRun == RunInit /\ [][RunNext]_vars

(***************************************************************************)
(* Sessions: the page opens over what an earlier session left in storage,  *)
(* a bank of two questions is loaded and run, the wrong-answer dialog is   *)
(* opened, closed and cleared, and the page is reopened                    *)
(***************************************************************************)
\* an entry left by an earlier session that ran another bank
OldEntry ==
    [original_number |-> 9,
     question_text |-> <<"O">>,
     options |-> <<[letter |-> "A", text |-> <<"p">>], [letter |-> "B", text |-> <<"q">>]>>,
     correct_answer |-> <<"A">>,
     user_answer |-> <<"B">>,
     is_multiple_choice |-> FALSE]

StoredItems ==
    {StorageAbsent, StorageCorrupt, StorageNull, JsonStringify(<<OldEntry>>)}

LogFiles == {"duo"}

LogInit ==
    /\ questions = <<>>
    /\ quizQuestions = <<>>
    /\ settings = [mode |-> "random", numQuestions |-> InitialNumQuestions,
                   startQuestion |-> 1]
    /\ currentIndex = 0
    /\ score = 0
    /\ answersState = <<>>
    /\ draftSelections = <<>>
    /\ warning = ""
    /\ \E item \in StoredItems : wrongAnswers = readJsonStorage(item, <<>>)
    /\ wrongStorage = JsonStringify(wrongAnswers)
    /\ fontSize = DEFAULT_FONT_SIZE
    /\ lastDropped = ""
    /\ autoNextTimer = NoTimer
    /\ showSettings = FALSE
    /\ showWrongModal = FALSE
    /\ showFinalModal = FALSE
    /\ loading = FALSE
    /\ loadError = ""
    /\ pendingLoads = <<>>
    /\ ParseIdle

LogNext ==
    \/ \E file \in LogFiles : LoadStart(file)
    \/ \E file \in LogFiles : LoadFinish(file)
    \/ restartQuiz
    \/ startQuiz
    \/ ChangeOption
    \/ SubmitAnswer
    \/ PreviousQuestion
    \/ NextQuestion
    \/ AutoNextFire
    \/ OpenWrongModal
    \/ CloseWrongModal
    \/ ClearWrongAnswers
    \/ NewSession

SpecLog == LogInit /\ [][LogNext]_vars

(***************************************************************************)
(* Loads that fail: files whose name does not end in .docx, whose          *)
(* conversion throws or that hold no question, chosen before and during a  *)
(* run of a bank loaded earlier                                            *)
(***************************************************************************)
LoadFiles == {"two", "empty", "broken", "notes"}

LoadNext ==
    \/ \E file \in LoadFiles : LoadStart(file)
    \/ \E file \in LoadFiles : LoadFinish(file)
    \/ UpdateMode
    \/ UpdateNumQuestions
    \/ startQuiz
    \/ ChangeOption
    \/ SubmitAnswer
    \/ PreviousQuestion
    \/ NextQuestion
    \/ AutoNextFire

SpecLoad == Init /\ [][LoadNext]_vars

(***************************************************************************)
(* A single run over a bank of three questions: the settings modal starts  *)
(* the run once, and only the quiz card and the timer act afterwards       *)
(***************************************************************************)
CardInit == BankLoaded("three")

CardNext ==
    \/ startQuiz
    \/ ChangeOption
    \/ SubmitAnswer
    \/ PreviousQuestion
    \/ NextQuestion
    \/ AutoNextFire
    \/ CloseFinalModal

SpecCard == CardInit /\ [][CardNext]_vars

(***************************************************************************)
(* The parser on its own: parseQuestionsFromHtml run block by block over   *)
(* every document of up to MaxBlocks blocks drawn from BlockPool.          *)
(* blockIdx is the number of blocks the loop has consumed; it is           *)
(* Len(blocks) + 1 once the final flush has run and the function has       *)
(* returned parser.questions.                                              *)
(***************************************************************************)
MaxBlocks == 4

BlockPool ==
    { \* "1. Q"
      Line(<<"1", ".", " ", "Q">>),
      \* "0,R"
      Line(<<"0", ",", "R">>),
      \* "A. x"
      Line(<<"A", ".", " ", "x">>),
      \* "b.y"
      Line(<<"b", ".", "y">>),
      \* "Answer: B"
      Line(<<"A", "n", "s", "w", "e", "r", ":", " ", "B">>),
      \* "answer CA"
      Line(<<"a", "n", "s", "w", "e", "r", " ", "C", "A">>),
      \* "Answer:bb"
      Line(<<"A", "n", "s", "w", "e", "r", ":", "b", "b">>),
      \* "note"
      Line(<<"n", "o", "t", "e">>),
      \* an image with no text around it
      [text |-> <<>>, images |-> <<"img1">>],
      \* "&nbsp;C、z " with two images
      [text |-> <<"NBSP", "C", "IDEOCOMMA", "z", " ">>, images |-> <<"img1", "img2">>] }

Documents == UNION {[1..n -> BlockPool] : n \in 0..MaxBlocks}

\* "1. What is 2+2?" "A. 3" "B. 4" "Answer: B"
ExampleDoc ==
    << Line(<<"1", ".", " ", "W", "h", "a", "t", " ", "i", "s", " ", "2", "+", "2", "?">>),
       Line(<<"A", ".", " ", "3">>), Line(<<"B", ".", " ", "4">>),
       Line(<<"A", "n", "s", "w", "e", "r", ":", " ", "B">>) >>

ParseInit ==
    /\ blocks \in Documents \cup {ExampleDoc}
    /\ blockIdx = 0
    /\ parser = ParserStart
    /\ AppInit

\* one iteration of for (const block of blocks)
ParseStep ==
    /\ blockIdx < Len(blocks)
    /\ parser' = ParseBlock(parser, blocks[blockIdx + 1])
    /\ blockIdx' = blockIdx + 1
    /\ UNCHANGED blocks
    /\ UNCHANGED appVars

\* the flushCurrentQuestion() after the loop, and the return
ParseReturn ==
    /\ blockIdx = Len(blocks)
    /\ parser' = flushCurrentQuestion(parser)
    /\ blockIdx' = Len(blocks) + 1
    /\ UNCHANGED blocks
    /\ UNCHANGED appVars

ParseNext == ParseStep \/ ParseReturn

SpecParse == ParseInit /\ [][ParseNext]_vars

ParseReturned == blockIdx = Len(blocks) + 1

(***************************************************************************)
(* C1: every question the parser emits has at least one option and a       *)
(* non-empty answer, and every letter of its answer is a key of its        *)
(* options.                                                                *)
(***************************************************************************)
C1_AnswerWithinOptions ==
    \A i \in 1..Len(parser.questions) :
        LET q == parser.questions[i] IN
        /\ Len(q.options) >= 1
        /\ q.answer # <<>>
        /\ Range(q.answer) \subseteq OptionKeySet(q.options)

(***************************************************************************)
(* Steps and sets the properties below speak of                            *)
(***************************************************************************)
LoadSucceeds(file) == ~FileTable[file].throws /\ Len(ParsedQuestions[file]) > 0

\* a new run starts, or a new bank is installed
NewRunStep ==
    \/ startQuiz
    \/ \E file \in DOMAIN FileTable : LoadSucceeds(file) /\ LoadFinish(file)

\* a submission is accepted at the current index
AcceptedSubmitStep ==
    /\ HasCurrentQuestion
    /\ currentIndex \notin DOMAIN answersState
    /\ currentIndex \in DOMAIN answersState'

CorrectIndices == {i \in DOMAIN answersState : answersState[i].isCorrect}

DistinctNumbers(log) ==
    \A i, j \in 1..Len(log) : log[i].original_number = log[j].original_number => i = j

\* the letters of a set, in ascending order
RECURSIVE SortedSeqOf(_)
SortedSeqOf(letters) ==
    IF letters = {} THEN <<>>
    ELSE LET l == CHOOSE x \in letters : \A y \in letters : LetterRank(x) <= LetterRank(y)
         IN  <<l>> \o SortedSeqOf(letters \ {l})

(***************************************************************************)
(* C2: within one run an answer record, once created, is never changed or  *)
(* removed by submitAnswer, changeOption, navigation or the auto-advance   *)
(* timer; only a new run (or a newly loaded bank) discards it.             *)
(***************************************************************************)
C2_AnswerRecordsFinal ==
    [][ \/ \A i \in DOMAIN answersState :
              i \in DOMAIN answersState' /\ answersState'[i] = answersState[i]
        \/ NewRunStep ]_vars

\* an incorrectly answered question the user has navigated away from
C2_Witness ==
    \E i \in DOMAIN answersState :
        /\ ~answersState[i].isCorrect
        /\ currentIndex # i
        /\ currentIndex \in DOMAIN draftSelections
        /\ currentIndex \notin DOMAIN answersState

(***************************************************************************)
(* C3: the wrong-answer log holds at most one entry per original_number,   *)
(* an accepted incorrect submission leaves the entry of the question's     *)
(* number carrying that submission's original-space answer and the other   *)
(* entries as they were, and no other step changes an entry (the log is    *)
(* left alone or emptied); so each entry is that of the latest miss.       *)
(***************************************************************************)
C3_WrongLogUpsert ==
    [][ /\ DistinctNumbers(wrongAnswers)
        /\ DistinctNumbers(wrongAnswers')
        /\ IF AcceptedSubmitStep /\ ~answersState'[currentIndex].isCorrect
           THEN /\ \E k \in 1..Len(wrongAnswers') :
                     /\ wrongAnswers'[k].original_number = currentQuestion.number
                     /\ wrongAnswers'[k].user_answer =
                            answersState'[currentIndex].userAnswerOriginal
                /\ \A k \in 1..Len(wrongAnswers) :
                     wrongAnswers[k].original_number # currentQuestion.number
                        => wrongAnswers[k] \in Range(wrongAnswers')
           ELSE wrongAnswers' = wrongAnswers \/ wrongAnswers' = <<>> ]_vars

\* the first of two entries is the miss of the current run, written over the
\* entry an earlier run left: the second entry's question is not yet answered
\* in this run, so both entries were in the log when the run started
C3_Witness ==
    /\ Len(wrongAnswers) = 2
    /\ \E i \in DOMAIN answersState :
          /\ ~answersState[i].isCorrect
          /\ quizQuestions[i + 1].number = wrongAnswers[1].original_number
          /\ answersState[i].userAnswerOriginal = wrongAnswers[1].user_answer
    /\ \A j \in DOMAIN answersState :
          quizQuestions[j + 1].number # wrongAnswers[2].original_number

(***************************************************************************)
(* C4: a submission on an unanswered question with an empty selection, or  *)
(* on a multi-choice question with a number of selected letters other than *)
(* the number of answer letters, sets the warning and changes nothing else.*)
(***************************************************************************)
C4_Rejectable ==
    /\ HasCurrentQuestion
    /\ ~HasCurrentResult
    /\ \/ Len(CurrentDraft) = 0
       \/ /\ currentQuestion.isMultipleChoice
          /\ Len(CurrentDraft) # Len(currentQuestion.answer)

C4_RejectedSubmission ==
    [][ (C4_Rejectable /\ SubmitAnswer) =>
            /\ warning' # ""
            /\ UNCHANGED <<questions, quizQuestions, settings, currentIndex, score,
                           answersState, draftSelections, wrongAnswers, wrongStorage, fontSize, lastDropped,
                           autoNextTimer, showSettings, showWrongModal, showFinalModal, loading,
                           loadError, pendingLoads>> ]_vars

\* a multi-choice submission refused for having too many letters selected
C4_Witness ==
    /\ HasCurrentQuestion
    /\ ~HasCurrentResult
    /\ warning = "WrongCount"
    /\ Len(CurrentDraft) > Len(currentQuestion.answer)

(***************************************************************************)
(* C5: the score is the number of answer records of the run that are       *)
(* correct (so 0 <= score <= answered <= run length); an accepted          *)
(* submission adds 1 when correct and 0 otherwise; a new run or a bank     *)
(* load resets score and records together.                                 *)
(***************************************************************************)
C5_ScoreCounts ==
    /\ score = Cardinality(CorrectIndices)
    /\ DOMAIN answersState \subseteq 0..(Len(quizQuestions) - 1)

C5_Score ==
    [][ /\ C5_ScoreCounts
        /\ C5_ScoreCounts'
        /\ AcceptedSubmitStep =>
              score' = score + (IF answersState'[currentIndex].isCorrect THEN 1 ELSE 0)
        /\ (score' # 0 \/ answersState' # <<>>) => ~NewRunStep ]_vars

\* a run with one correct and one incorrect record
C5_Witness ==
    /\ score = 1
    /\ answeredCount = 2
    /\ \E i \in DOMAIN answersState : ~answersState[i].isCorrect

(***************************************************************************)
(* C6: a new run or a newly loaded bank cancels a pending auto-advance     *)
(* timer.                                                                  *)
(***************************************************************************)
C6_TimerCancelledOnNewRun ==
    [][ autoNextTimer' = NoTimer \/ ~NewRunStep ]_vars

(***************************************************************************)
(* C7: after an accepted incorrect submission at index i the current index *)
(* is not advanced automatically: in the state the submission leaves, and  *)
(* so until the user navigates or a new run starts, no firing of the       *)
(* auto-advance timer moves the index away from i.                         *)
(***************************************************************************)
C7_TimerMovesIndex == AutoNextFire /\ currentIndex' # currentIndex

C7_NoAutoAdvanceAfterIncorrect ==
    [][ (AcceptedSubmitStep /\ ~answersState'[currentIndex].isCorrect)
            => ~(ENABLED C7_TimerMovesIndex)' ]_vars

(***************************************************************************)
(* C8: optionMapping and reverseMapping of every prepared question are     *)
(* mutually inverse bijections between the first n letters and the n       *)
(* original option keys, and a selection translated to original space and  *)
(* back is the selection.                                                  *)
(***************************************************************************)
C8_BackToShuffled(q, original) ==
    sortLetters([i \in 1..Len(original) |-> q.reverseMapping[original[i]]])

C8_MappingsInverse ==
    \A k \in 1..Len(quizQuestions) :
        LET q == quizQuestions[k]
            n == Len(q.options)
            om == q.optionMapping
            rm == q.reverseMapping
        IN  /\ DOMAIN om = {LETTERS[i] : i \in 1..n}
            /\ DOMAIN rm = OptionKeySet(q.options)
            /\ Cardinality(DOMAIN rm) = n
            /\ \A l \in DOMAIN om : om[l] \in DOMAIN rm /\ rm[om[l]] = l
            /\ \A o \in DOMAIN rm : rm[o] \in DOMAIN om /\ om[rm[o]] = o
            /\ \A chosen \in SUBSET DOMAIN om :
                  C8_BackToShuffled(q, ToOriginal(q, SortedSeqOf(chosen)))
                     = SortedSeqOf(chosen)

\* four options whose keys are not A..D, shuffled so that no letter is kept
C8_Witness ==
    \E k \in 1..Len(quizQuestions) :
        LET q == quizQuestions[k] IN
        /\ Len(q.options) = 4
        /\ OptionKeySet(q.options) # DOMAIN q.optionMapping
        /\ \A l \in DOMAIN q.optionMapping : q.optionMapping[l] # l

(***************************************************************************)
(* C9: in sequential mode startQuiz returns at least min(numQuestions,     *)
(* questions from the start index on) questions; the first has number >=   *)
(* startQuestion, unless no question has, and then it is a lowest-numbered *)
(* one.                                                                    *)
(***************************************************************************)
C9_AtOrAbove == {i \in 1..Len(questions) : questions[i].number >= settings.startQuestion}

C9_Below == {i \in 1..Len(questions) : questions[i].number < settings.startQuestion}

C9_SequentialSelection ==
    [][ (settings.mode = "sequential" /\ startQuiz) =>
           LET remaining == IF C9_AtOrAbove = {} THEN Len(questions)
                            ELSE Cardinality(C9_AtOrAbove)
           IN  /\ Len(quizQuestions') >= Min(settings.numQuestions, remaining)
               /\ Len(quizQuestions') >= 1
               /\ C9_AtOrAbove # {} =>
                     quizQuestions'[1].number >= settings.startQuestion
               /\ C9_AtOrAbove = {} =>
                     \A i \in 1..Len(questions) :
                        quizQuestions'[1].number <= questions[i].number ]_vars

\* a sequential run that begins above the start number asked for, in a bank
\* that also holds a lower number
C9_Witness ==
    /\ settings.mode = "sequential"
    /\ ~showSettings
    /\ Len(quizQuestions) >= 2
    /\ C9_Below # {}
    /\ quizQuestions[1].number > settings.startQuestion

(***************************************************************************)
(* C10: once a bank is loaded, numQuestions lies in [1, availableCount]    *)
(* and startQuestion in [1, highest question number], and startQuiz starts *)
(* a run of exactly numQuestions questions.                                *)
(***************************************************************************)
C10_AvailableCount ==
    IF settings.mode = "random" THEN Len(questions)
    ELSE IF C9_AtOrAbove = {} THEN Len(questions) ELSE Cardinality(C9_AtOrAbove)

C10_InRange ==
    Len(questions) > 0 =>
        /\ settings.numQuestions \in 1..C10_AvailableCount
        /\ \E i \in 1..Len(questions) :
              /\ settings.startQuestion \in 1..questions[i].number
              /\ \A j \in 1..Len(questions) : questions[j].number <= questions[i].number

C10_SettingsInRange ==
    [][ /\ C10_InRange'
        /\ startQuiz => Len(quizQuestions') = settings.numQuestions ]_vars

(***************************************************************************)
(* C11: in a run with at least one question the final summary becomes      *)
(* visible with the submission that gives the last unanswered index its    *)
(* record; it is never visible while an index of the current run has no    *)
(* record (so not after a new run is started); its total is the run length *)
(* and its correct count is the score.                                     *)
(***************************************************************************)
C11_RunComplete ==
    /\ Len(quizQuestions) > 0
    /\ DOMAIN answersState = 0..(Len(quizQuestions) - 1)

C11_FinalSummary ==
    [][ /\ FinalResultModal'.visible => C11_RunComplete'
        /\ (AcceptedSubmitStep /\ C11_RunComplete') => FinalResultModal'.visible
        /\ FinalResultModal'.total = Len(quizQuestions')
        /\ FinalResultModal'.score = Cardinality(CorrectIndices') ]_vars

\* the summary of a completed run of two questions, one of them missed
C11_Witness ==
    /\ FinalResultModal.visible
    /\ FinalResultModal.total = 2
    /\ FinalResultModal.score = 1
    /\ answeredCount = 2

(***************************************************************************)
(* C12: clearWrongAnswers with the confirmation given leaves the log with  *)
(* 0 entries whatever its size was; with the confirmation refused it       *)
(* leaves the log and every other piece of state unchanged.                *)
(***************************************************************************)
C12_ClearWrongAnswers ==
    [][ /\ (showWrongModal /\ clearWrongAnswers(TRUE)) => Len(wrongAnswers') = 0
        /\ (showWrongModal /\ clearWrongAnswers(FALSE)) => UNCHANGED vars ]_vars

\* the log and its stored copy are empty although the current run holds a
\* miss: the log was cleared after that miss
C12_Witness ==
    /\ Len(wrongAnswers) = 0
    /\ ~showWrongModal
    /\ wrongStorage = JsonStringify(<<>>)
    /\ \E i \in DOMAIN answersState : ~answersState[i].isCorrect

(***************************************************************************)
(* C13: only a confirmed clear removes an entry from the wrong-answer log: *)
(* every other step (new run, bank load, navigation, a correct answer to a *)
(* question missed before, a new session) leaves each entry's number at    *)
(* its place, and the entry itself unless the step is a miss of that       *)
(* number; the stored copy equals the log after every step, and a new      *)
(* session starts with the log of the previous one.                        *)
(***************************************************************************)
C13_ConfirmedClear == showWrongModal /\ clearWrongAnswers(TRUE)

C13_Missed(number) ==
    /\ AcceptedSubmitStep
    /\ ~answersState'[currentIndex].isCorrect
    /\ currentQuestion.number = number

C13_EntriesPersist ==
    [][ /\ \/ \A k \in 1..Len(wrongAnswers) :
                /\ k <= Len(wrongAnswers')
                /\ wrongAnswers'[k].original_number = wrongAnswers[k].original_number
                /\ \/ wrongAnswers'[k] = wrongAnswers[k]
                   \/ C13_Missed(wrongAnswers[k].original_number)
           \/ C13_ConfirmedClear
        /\ wrongStorage' = JsonStringify(wrongAnswers')
        /\ readJsonStorage(wrongStorage', <<>>) = wrongAnswers'
        /\ NewSession => wrongAnswers' = wrongAnswers ]_vars

\* a session that has just started (no bank is loaded) and holds, after the
\* entry found in storage at first, the entry of a miss of the session before
C13_Witness ==
    /\ questions = <<>>
    /\ quizQuestions = <<>>
    /\ Len(wrongAnswers) = 2
    /\ wrongAnswers[1].original_number = 9
    /\ wrongAnswers[2].original_number = 3

(***************************************************************************)
(* C14: a bank load that fails (name not ending in .docx, conversion       *)
(* throws, no question parsed) leaves the bank, the run (prepared          *)
(* questions, records, score, index), the settings and the wrong-answer    *)
(* log unchanged at its start and at its end; its end sets the error       *)
(* message and leaves the loading flag false.                              *)
(***************************************************************************)
C14_FailingFiles == {file \in DOMAIN FileTable : ~LoadSucceeds(file)}

C14_FailedLoadEnds(file) ==
    IF IsDocxName(FileTable[file].name) THEN LoadFinish(file) ELSE LoadStart(file)

C14_FailedLoad ==
    [][ \A file \in C14_FailingFiles :
          /\ (LoadStart(file) \/ LoadFinish(file)) =>
                UNCHANGED <<questions, quizQuestions, answersState, score,
                            currentIndex, draftSelections, settings, wrongAnswers,
                            wrongStorage, fontSize, lastDropped>>
          /\ C14_FailedLoadEnds(file) => (loadError' # "" /\ loading' = FALSE) ]_vars

\* a conversion has failed in the middle of a sequential run with a record
C14_Witness ==
    /\ loadError = "ConvertFailed"
    /\ ~loading
    /\ settings.mode = "sequential"
    /\ Len(quizQuestions) = 2
    /\ answeredCount = 1
    /\ currentIndex = 1

(***************************************************************************)
(* C15: the parser emits one question for a question-start line exactly    *)
(* when an option line and an answer line occur between that line and the  *)
(* next question-start line or the end of input; the emitted questions are *)
(* in document order and carry the numbers of their start lines; the text  *)
(* "1. What is 2+2?", "A. 3", "B. 4", "Answer: B" gives one question with  *)
(* number 1, options {A: "3", B: "4"} and answer "B".                      *)
(***************************************************************************)
C15_IsStart(i) == QuestionMatch(normalizeText(blocks[i].text)).ok

C15_IsOption(i) == ~C15_IsStart(i) /\ OptionMatch(normalizeText(blocks[i].text)).ok

C15_IsAnswer(i) ==
    /\ ~C15_IsStart(i)
    /\ ~C15_IsOption(i)
    /\ AnswerMatch(normalizeText(blocks[i].text)).ok

\* the lines after start line i and before the next start line
C15_Segment(i) ==
    {j \in (i + 1)..Len(blocks) : \A k \in (i + 1)..j : ~C15_IsStart(k)}

C15_Emitting ==
    {i \in 1..Len(blocks) :
        /\ C15_IsStart(i)
        /\ \E j \in C15_Segment(i) : C15_IsOption(j)
        /\ \E j \in C15_Segment(i) : C15_IsAnswer(j)}

C16_AscendingNoRepeat(answer) ==
    /\ answer # <<>>
    /\ Range(answer) \subseteq LetterSet
    /\ \A i \in 1..(Len(answer) - 1) : LetterRank(answer[i]) < LetterRank(answer[i + 1])

C16_NormalizedAnswer ==
    \A n \in 1..Len(parser.questions) :
        /\ C16_AscendingNoRepeat(parser.questions[n].answer)
        /\ parser.questions[n].number >= 1

(***************************************************************************)
(* C17: in random mode startQuiz selects exactly                           *)
(* clamp(numQuestions, 1, bank size) questions, and the selected questions *)
(* are distinct entries of the bank (a prefix of a permutation of the      *)
(* bank), whatever the shuffle draws.                                      *)
(***************************************************************************)
C17_SameQuestion(prepared, question) ==
    /\ prepared.number = question.number
    /\ prepared.text = question.text
    /\ prepared.options = question.options
    /\ prepared.answer = question.answer
    /\ prepared.images = question.images

C17_RandomSelection ==
    [][ (settings.mode = "random" /\ startQuiz) =>
           /\ Len(quizQuestions') = clamp(settings.numQuestions, 1, Len(questions))
           /\ \E f \in [1..Len(quizQuestions') -> 1..Len(questions)] :
                 /\ \A a, b \in DOMAIN f : a # b => f[a] # f[b]
                 /\ \A a \in DOMAIN f :
                       C17_SameQuestion(quizQuestions'[a], questions[f[a]]) ]_vars

\* a random run of two of the three questions of a bank, in an order that
\* is not the bank's
C17_Witness ==
    /\ settings.mode = "random"
    /\ ~showSettings
    /\ settings.numQuestions = 2
    /\ Len(questions) = 3
    /\ Len(quizQuestions) = 2
    /\ C17_SameQuestion(quizQuestions[1], questions[3])
    /\ C17_SameQuestion(quizQuestions[2], questions[1])

(***************************************************************************)
(* C18: a miss of a question whose number is in the log replaces the entry *)
(* at the position it has and leaves the order and the content of every    *)
(* other entry; a miss of a number that is not in the log is appended at   *)
(* the end.  Entries are therefore in the order of their first misses      *)
(* since the log was last cleared.                                         *)
(***************************************************************************)
C18_Present ==
    {k \in 1..Len(wrongAnswers) :
        wrongAnswers[k].original_number = currentQuestion.number}

C18_IsNewEntry(entry) ==
    /\ entry.original_number = currentQuestion.number
    /\ entry.user_answer = answersState'[currentIndex].userAnswerOriginal

C18_UpsertInPlace ==
    [][ (AcceptedSubmitStep /\ ~answersState'[currentIndex].isCorrect) =>
           IF C18_Present # {}
           THEN /\ Len(wrongAnswers') = Len(wrongAnswers)
                /\ \A k \in 1..Len(wrongAnswers) :
                      IF k \in C18_Present
                      THEN C18_IsNewEntry(wrongAnswers'[k])
                      ELSE wrongAnswers'[k] = wrongAnswers[k]
           ELSE /\ Len(wrongAnswers') = Len(wrongAnswers) + 1
                /\ SubSeq(wrongAnswers', 1, Len(wrongAnswers)) = wrongAnswers
                /\ C18_IsNewEntry(wrongAnswers'[Len(wrongAnswers')]) ]_vars

\* three entries, the stored one first; the second is the miss of the
\* current run and the third is of a question this run has not answered, so
\* the third was in the log, behind the second, when this miss was written
C18_Witness ==
    /\ Len(wrongAnswers) = 3
    /\ wrongAnswers[1] = OldEntry
    /\ \E i \in DOMAIN answersState :
          /\ ~answersState[i].isCorrect
          /\ quizQuestions[i + 1].number = wrongAnswers[2].original_number
          /\ answersState[i].userAnswerOriginal = wrongAnswers[2].user_answer
    /\ \A j \in DOMAIN answersState :
          quizQuestions[j + 1].number # wrongAnswers[3].original_number

(***************************************************************************)
(* C19: an accepted submission schedules the auto-advance timer exactly    *)
(* when the answer is correct and the index is not the last of the run, at *)
(* most one timer is pending, and when the timer scheduled at index i      *)
(* fires the current index becomes i + 1, under every interleaving with    *)
(* previous / next navigation and further submissions.                     *)
(***************************************************************************)
C19_ScheduledNow == autoNextTimer' # NoTimer /\ autoNextTimer'.index = currentIndex

C19_ScheduledExactly ==
    AcceptedSubmitStep =>
        /\ C19_ScheduledNow <=> /\ answersState'[currentIndex].isCorrect
                                /\ currentIndex < Len(quizQuestions) - 1
        /\ ~C19_ScheduledNow => autoNextTimer' = autoNextTimer

C19_FiresToNextOfAnswered == AutoNextFire => currentIndex' = autoNextTimer.index + 1

C19_AutoAdvance == [][C19_ScheduledExactly /\ C19_FiresToNextOfAnswered]_vars

(***************************************************************************)
(* Runs over a bank with a multi-choice question whose option letters are  *)
(* not the first letters of the alphabet                                   *)
(***************************************************************************)
MixedInit == BankLoaded("mixed")

MixedNext ==
    \/ restartQuiz
    \/ startQuiz
    \/ ChangeOption
    \/ SubmitAnswer
    \/ PreviousQuestion
    \/ NextQuestion
    \/ AutoNextFire
    \/ CloseFinalModal

SpecMixed == MixedInit /\ [][MixedNext]_vars

(***************************************************************************)
(* C20: the entry an incorrect submission writes to the log is in original *)
(* space: its options are the question's unshuffled options, its           *)
(* correct_answer is the question's original answer and its user_answer is *)
(* the sorted image of the selected shuffled letters under optionMapping;  *)
(* in every entry written by submitAnswer user_answer is non-empty and     *)
(* differs from correct_answer.                                            *)
(***************************************************************************)
C20_BankQuestion(number) ==
    questions[CHOOSE j \in 1..Len(questions) : questions[j].number = number]

C20_Image(selected) ==
    SortedSeqOf({currentQuestion.optionMapping[selected[i]] : i \in 1..Len(selected)})

C20_EntryInOriginalSpace ==
    [][ /\ (AcceptedSubmitStep /\ ~answersState'[currentIndex].isCorrect) =>
              \E k \in 1..Len(wrongAnswers') :
                 /\ wrongAnswers'[k].original_number = currentQuestion.number
                 /\ wrongAnswers'[k].options =
                       C20_BankQuestion(currentQuestion.number).options
                 /\ wrongAnswers'[k].correct_answer =
                       C20_BankQuestion(currentQuestion.number).answer
                 /\ wrongAnswers'[k].user_answer =
                       C20_Image(answersState'[currentIndex].selected)
        /\ \A k \in 1..Len(wrongAnswers') :
              /\ wrongAnswers'[k].user_answer # <<>>
              /\ wrongAnswers'[k].user_answer # wrongAnswers'[k].correct_answer ]_vars

\* the log holds a miss of the multi-choice question: the user chose the
\* options shown as A and C, which are the original B and E here
C20_Witness ==
    /\ Len(quizQuestions) = 2
    /\ \E i \in DOMAIN answersState :
          /\ quizQuestions[i + 1].number = 5
          /\ answersState[i].selected = <<"A", "C">>
          /\ quizQuestions[i + 1].optionMapping["A"] = "E"
          /\ quizQuestions[i + 1].optionMapping["C"] = "B"
          /\ \E k \in 1..Len(wrongAnswers) :
                /\ wrongAnswers[k].original_number = 5
                /\ wrongAnswers[k].user_answer = <<"B", "E">>
                /\ wrongAnswers[k].correct_answer = <<"B", "D">>

(***************************************************************************)
(* The parser over documents of question stems: start lines with and       *)
(* without a remainder, plain lines, an image-only block, one option line  *)
(* and one answer line                                                     *)
(***************************************************************************)
MaxStemBlocks == 5

StemPool ==
    { \* "1. Q"
      Line(<<"1", ".", " ", "Q">>),
      \* "2."
      Line(<<"2", ".">>),
      \* "A. x"
      Line(<<"A", ".", " ", "x">>),
      \* "Answer: B"
      Line(<<"A", "n", "s", "w", "e", "r", ":", " ", "B">>),
      \* "note"
      Line(<<"n", "o", "t", "e">>),
      \* an image with no text around it
      [text |-> <<>>, images |-> <<"img1">>] }

StemInit ==
    /\ blocks \in UNION {[1..n -> StemPool] : n \in 0..MaxStemBlocks}
    /\ blockIdx = 0
    /\ parser = ParserStart
    /\ AppInit

SpecStem == StemInit /\ [][ParseNext]_vars

(***************************************************************************)
(* C21: the text of an emitted question is the newline-join of the         *)
(* remainder of its start line and exactly those non-empty lines that      *)
(* match none of the three patterns and occur before the first option line *)
(* of the question; lines that match no pattern after the first option     *)
(* line, and answer lines, change neither the text nor the options.        *)
(***************************************************************************)
\* the pattern each line of the document matches, tried in the parser's order
C21_Kind ==
    [i \in 1..Len(blocks) |->
        LET text == normalizeText(blocks[i].text)
        IN  IF QuestionMatch(text).ok THEN "question"
            ELSE IF OptionMatch(text).ok THEN "option"
            ELSE IF AnswerMatch(text).ok THEN "answer"
            ELSE IF text = <<>> THEN "empty"
            ELSE "plain"]

\* line j belongs to the question started at line i
C21_InSegment(kind, i, j) == i < j /\ \A k \in (i + 1)..j : kind[k] # "question"

C21_Emits(kind, i) ==
    /\ kind[i] = "question"
    /\ \E j \in DOMAIN kind : C21_InSegment(kind, i, j) /\ kind[j] = "option"
    /\ \E j \in DOMAIN kind : C21_InSegment(kind, i, j) /\ kind[j] = "answer"

\* the non-empty plain lines of the question started at line i that come
\* before its first option line, in document order
C21_StemLines(kind, i) ==
    LET stem == {j \in DOMAIN kind :
                    /\ kind[j] = "plain"
                    /\ i < j
                    /\ \A k \in (i + 1)..j : kind[k] \notin {"question", "option"}}
        RECURSIVE InOrder(_)
        InOrder(js) ==
            IF js = {} THEN <<>>
            ELSE LET j == CHOOSE x \in js : \A y \in js : x <= y
                 IN  <<normalizeText(blocks[j].text)>> \o InOrder(js \ {j})
    IN  InOrder(stem)

C21_Remainder(i) == QuestionMatch(normalizeText(blocks[i].text)).rest

\* pieces.join("\n")
RECURSIVE C21_Join(_)
C21_Join(pieces) ==
    IF pieces = <<>> THEN <<>>
    ELSE IF Len(pieces) = 1 THEN pieces[1]
    ELSE pieces[1] \o <<"\n">> \o C21_Join(Tail(pieces))

\* position, among the emitted questions, of the one started at line i
C21_Position(kind, i) == Cardinality({e \in 1..i : C21_Emits(kind, e)})

C21_IgnoredLine ==
    /\ blockIdx < Len(blocks)
    /\ blockIdx' = blockIdx + 1
    /\ \/ C21_Kind[blockIdx + 1] = "answer"
       \/ /\ C21_Kind[blockIdx + 1] \in {"plain", "empty"}
          /\ Len(parser.currentOptions) > 0

C21_IgnoredLineKeeps ==
    C21_IgnoredLine =>
        /\ parser'.currentText = parser.currentText
        /\ parser'.currentOptions = parser.currentOptions

\* the claim as stated: the remainder is a piece of the join even when empty
C21_TextIsJoin ==
    [][ /\ ParseReturned' =>
              LET kind == C21_Kind
              IN  \A i \in DOMAIN kind :
                     C21_Emits(kind, i) =>
                        parser'.questions[C21_Position(kind, i)].text =
                           C21_Join(<<C21_Remainder(i)>> \o C21_StemLines(kind, i))
        /\ C21_IgnoredLineKeeps ]_vars

\* C21 as amended: the text is the newline-join of the non-empty ones among
\* the remainder of the start line and the plain lines before the first
\* option line
C21_TextIsJoinOfNonEmpty ==
    [][ /\ ParseReturned' =>
              LET kind == C21_Kind
              IN  \A i \in DOMAIN kind :
                     C21_Emits(kind, i) =>
                        parser'.questions[C21_Position(kind, i)].text =
                           C21_Join(SelectSeq(<<C21_Remainder(i)>> \o C21_StemLines(kind, i),
                                              LAMBDA piece : piece # <<>>))
        /\ C21_IgnoredLineKeeps ]_vars

\* a parsed document of four lines: a start line with an empty remainder, a
\* plain line, an option line and an answer line; the text is the plain line
C21_Witness ==
    /\ ParseReturned
    /\ Len(blocks) = 4
    /\ C21_Kind = <<"question", "plain", "option", "answer">>
    /\ C21_Remainder(1) = <<>>
    /\ Len(parser.questions) = 1
    /\ parser.questions[1].text = normalizeText(blocks[2].text)

(***************************************************************************)
(* Runs, loads, the font buttons and the wrong-answer dialog together      *)
(***************************************************************************)
FrameFiles == {"two"}

FrameInit == BankLoaded("two")

FrameNext ==
    \/ \E file \in FrameFiles : LoadStart(file)
    \/ \E file \in FrameFiles : LoadFinish(file)
    \/ restartQuiz
    \/ startQuiz
    \/ ChangeOption
    \/ SubmitAnswer
    \/ PreviousQuestion
    \/ NextQuestion
    \/ AutoNextFire
    \/ OpenWrongModal
    \/ CloseWrongModal
    \/ ClearWrongAnswers
    \/ DecreaseFont
    \/ IncreaseFont

SpecFrame == FrameInit /\ [][FrameNext]_vars

(***************************************************************************)
(* C22: the prepared questions of a run (their order, shuffledOptions,     *)
(* optionMapping, reverseMapping, shuffledAnswer) are fixed when startQuiz *)
(* runs; submitAnswer, changeOption, previous / next, the auto-advance     *)
(* timer, font changes and the wrong-log operations leave them unchanged;  *)
(* they change only when a new run starts or a bank load succeeds.         *)
(***************************************************************************)
C22_InRunStep ==
    \/ SubmitAnswer
    \/ ChangeOption
    \/ PreviousQuestion
    \/ NextQuestion
    \/ AutoNextFire
    \/ DecreaseFont
    \/ IncreaseFont
    \/ OpenWrongModal
    \/ CloseWrongModal
    \/ ClearWrongAnswers

C22_PreparedFixed ==
    [][ /\ C22_InRunStep => quizQuestions' = quizQuestions
        /\ quizQuestions' # quizQuestions => NewRunStep ]_vars

\* a run whose two questions are both answered, one of them incorrectly,
\* after which the font was made larger and the log was cleared
C22_Witness ==
    /\ Len(quizQuestions) = 2
    /\ DOMAIN answersState = {0, 1}
    /\ \E i \in DOMAIN answersState : ~answersState[i].isCorrect
    /\ fontSize > DEFAULT_FONT_SIZE
    /\ wrongAnswers = <<>>
    /\ currentIndex = 0

(***************************************************************************)
(* Files dropped on the upload zone while an earlier load is in flight:    *)
(* the file input is disabled while loading, the drop handlers are not     *)
(***************************************************************************)
MaxOverlap == 2

DropFiles == {"two", "zero"}

\* handleDrop: loadDocxFile(file) up to its first await
HandleDrop(file) == loadDocxFileStart(file, MaxOverlap) /\ lastDropped' = file

DropNext ==
    \/ \E file \in DropFiles : HandleDrop(file)
    \/ \E file \in DropFiles : LoadFinish(file)
    \/ startQuiz
    \/ ChangeOption
    \/ SubmitAnswer
    \/ PreviousQuestion
    \/ NextQuestion
    \/ AutoNextFire

SpecDrop == Init /\ [][DropNext]_vars

(***************************************************************************)
(* C23: loading is true in every state in which a document load is in      *)
(* flight, also when a second load is started by a drop while an earlier   *)
(* one is in flight; and the bank installed after overlapping loads is     *)
(* that of the load started last.                                          *)
(***************************************************************************)
C23_InFlight == pendingLoads # <<>>

C23_LoadingWhileInFlight == C23_InFlight => loading

C23_LastDroppedWins ==
    (~C23_InFlight /\ lastDropped # "" /\ LoadSucceeds(lastDropped))
        => questions = ParsedQuestions[lastDropped]

C23_LoadingIndicator == C23_LoadingWhileInFlight /\ C23_LastDroppedWins

(***************************************************************************)
(* One run over a bank that holds, next to a regular multi-choice          *)
(* question, a question whose answer names a letter that is no option and  *)
(* a question whose answer names a letter twice                            *)
(***************************************************************************)
OddInit == BankLoaded("odd")

OddNext ==
    \/ startQuiz
    \/ ChangeOption
    \/ SubmitAnswer
    \/ PreviousQuestion
    \/ NextQuestion
    \/ AutoNextFire
    \/ CloseFinalModal

SpecOdd == OddInit /\ [][OddNext]_vars

(***************************************************************************)
(* C24: for every prepared question and every accepted submission the      *)
(* record's isCorrect is true if and only if userAnswerOriginal equals the *)
(* question's original answer: correctness decided in shuffled space       *)
(* agrees with correctness in original space, for every option permutation *)
(* and every question the parser can emit.                                 *)
(***************************************************************************)
C24_CorrectInBothSpaces ==
    [][ AcceptedSubmitStep =>
           (answersState'[currentIndex].isCorrect
              <=> answersState'[currentIndex].userAnswerOriginal = currentQuestion.answer) ]_vars

\* the regular question is answered correctly under a permutation that
\* moves its letters, and the question whose answer repeats a letter is
\* answered with two letters and marked incorrect
C24_Witness ==
    /\ \E i \in DOMAIN answersState :
          /\ quizQuestions[i + 1].number = 4
          /\ answersState[i].isCorrect
          /\ answersState[i].selected # answersState[i].userAnswerOriginal
    /\ \E j \in DOMAIN answersState :
          /\ quizQuestions[j + 1].number = 6
          /\ Len(answersState[j].selected) = 2
          /\ ~answersState[j].isCorrect

(***************************************************************************)
(* C25: every question the parser can emit can be answered correctly in a  *)
(* run: for every prepared question there is a selection of shuffled       *)
(* letters that submitAnswer accepts and marks correct, so a score equal   *)
(* to the run length can be reached in every run.                          *)
(***************************************************************************)
C25_Answerable(question) ==
    \E letters \in SUBSET OptionKeySet(question.shuffledOptions) :
        LET selected == SortedSeqOf(letters)
        IN  /\ SubmitWarning(question, selected) = ""
            /\ selected = question.shuffledAnswer

C25_EveryQuestionAnswerable ==
    \A i \in 1..Len(quizQuestions) : C25_Answerable(quizQuestions[i])

(***************************************************************************)
(* C26: in every reachable state in which the current run has at least one *)
(* question, 0 <= currentIndex < run length: the index designates a        *)
(* question of the run, across previous / next, the auto-advance timer, a  *)
(* new run of another length and the load of a new bank.                   *)
(***************************************************************************)
C26_IndexInRun ==
    Len(quizQuestions) > 0 =>
        /\ 0 <= currentIndex
        /\ currentIndex < Len(quizQuestions)

====
